---- MODULE Spec2Model ----
(***************************************************************************)
(* A model of src/mobile_ui_editor.py: the Mobile UI JSON editor.          *)
(*                                                                         *)
(* The editor keeps one JSON document (json_data) and four views of it:    *)
(* a tree, a list of element ids, a canvas of draggable shapes and a raw   *)
(* text buffer, plus a property form over one selected subtree.            *)
(*                                                                         *)
(* Python objects are modelled with their identity.  Every parse of a      *)
(* text yields a fresh root object stored in `heap` under a new id; an     *)
(* alias into a document is a pair (root id, path).  The single-key dicts  *)
(* that the tree attaches to its leaf nodes are objects of their own: they *)
(* live in the tree node (and move into the selection when the tree is     *)
(* rebuilt while the form still holds one).                                *)
(***************************************************************************)
EXTENDS Integers, Sequences, FiniteSets, TLC

VARIABLES
    heap,          \* root id -> the JSON value parsed under that id (or Free)
    json_data,     \* MobileUIEditor.json_data: a root id, 0 for None
    current_file,  \* MobileUIEditor.current_file: a path, "" for None
    modified,      \* MobileUIEditor.modified
    raw,           \* the text held by MobileUIEditor.raw_editor
    tab,           \* MobileUIEditor.tabs.currentWidget(): "props" or "raw"
    sel,           \* PropertyEditor.current_data: the selected object
    editors,       \* the fields of the property form, in layout order
    canvas,        \* CanvasView.widgets_items: the shapes, in order
    tree,          \* the nodes of MobileUIEditor.json_tree, in pre-order
    wlist,         \* the entries of MobileUIEditor.widgets_list
    disk,          \* the file system: path -> text
    lastEdited,    \* history: surface edited last since load/save
    closed,        \* the window has accepted a close event
    last,          \* history: the handler that ran last and how it ended
    ops            \* history: how many loads, saves and edits have run

vars == <<heap, json_data, current_file, modified, raw, tab, sel, editors,
          canvas, tree, wlist, disk, closed, lastEdited, last, ops>>

---------------------------------------------------------------------------
(* JSON values as Python holds them.  Every value is a record of the same  *)
(* shape: its type t, its text s (a str), its number n (an int, a float,   *)
(* or 1 and 0 for True and False) and its content c (a dict or a list).    *)
(* The content is the sequence of the items [k |-> key, x |-> value] in    *)
(* insertion order, the key of a list item being "".  A float carries its  *)
(* own type, so that 10 and 10.0 are different values that compare equal   *)
(* under Python's ==.                                                      *)

Pair(k, x) == [k |-> k, x |-> x]

JStr(s)  == [t |-> "str",  s |-> s,  n |-> 0, c |-> <<>>]
JInt(n)  == [t |-> "int",  s |-> "", n |-> n, c |-> <<>>]
JFlt(n)  == [t |-> "flt",  s |-> "", n |-> n, c |-> <<>>]
JBool(b) == [t |-> "bool", s |-> "", n |-> IF b THEN 1 ELSE 0, c |-> <<>>]
JArr(xs) == [t |-> "arr",  s |-> "", n |-> 0, c |-> [i \in 1..Len(xs) |-> Pair("", xs[i])]]
JObj(ps) == [t |-> "obj",  s |-> "", n |-> 0, c |-> ps]
PyNone   == [t |-> "none", s |-> "", n |-> 0, c |-> <<>>]
Free     == [t |-> "free", s |-> "", n |-> 0, c |-> <<>>]

\* The items of a list.
Elems(a) == [i \in 1..Len(a.c) |-> a.c[i].x]

IsDict(x) == x.t = "obj"
IsList(x) == x.t = "arr"
IsNum(x)  == x.t \in {"int", "flt"}

\* Python truthiness: `if not data`, `if self.json_data`.
Truthy(x) ==
    CASE x.t \in {"obj", "arr"}         -> Len(x.c) > 0
      [] x.t = "str"                    -> x.s # ""
      [] x.t \in {"int", "flt", "bool"} -> x.n # 0
      [] OTHER                          -> FALSE

\* dict operations: `k in d`, d[k], d.get(k, default), d[k] = x.
Has(d, k)     == \E i \in DOMAIN d.c : d.c[i].k = k
KeyIdx(d, k)  == CHOOSE i \in DOMAIN d.c : d.c[i].k = k
Get(d, k)     == d.c[KeyIdx(d, k)].x
GetD(d, k, x) == IF Has(d, k) THEN Get(d, k) ELSE x
Put(d, k, x)  ==
    IF Has(d, k) THEN JObj([d.c EXCEPT ![KeyIdx(d, k)] = Pair(k, x)])
    ELSE JObj(Append(d.c, Pair(k, x)))

\* Python's == on JSON values: key order is ignored, 10 == 10.0.
RECURSIVE PyEq(_, _)
PyEq(a, b) ==
    CASE IsNum(a) /\ IsNum(b)   -> a.n = b.n
      [] IsDict(a) /\ IsDict(b) ->
            /\ Len(a.c) = Len(b.c)
            /\ \A i \in DOMAIN a.c :
                  Has(b, a.c[i].k) /\ PyEq(a.c[i].x, Get(b, a.c[i].k))
      [] IsList(a) /\ IsList(b) ->
            /\ Len(a.c) = Len(b.c)
            /\ \A i \in DOMAIN a.c : PyEq(a.c[i].x, b.c[i].x)
      [] OTHER                  -> a = b

\* A step of a path is a dict key or, inside a list, an index written as a
\* string.
IdxNames == <<"0", "1", "2">>
IdxOf(step) == CHOOSE i \in DOMAIN IdxNames : IdxNames[i] = step

\* The object reached from x along path p.
RECURSIVE At(_, _)
At(x, p) ==
    IF p = <<>> THEN x
    ELSE IF IsList(x) THEN At(x.c[IdxOf(Head(p))].x, Tail(p))
    ELSE At(Get(x, Head(p)), Tail(p))

\* x with the object at path p replaced by y: an in-place mutation of the
\* object at p, seen through every alias of x.
RECURSIVE Mutate(_, _, _)
Mutate(x, p, y) ==
    IF p = <<>> THEN y
    ELSE IF IsList(x)
         THEN [x EXCEPT !.c[IdxOf(Head(p))].x = Mutate(@, Tail(p), y)]
    ELSE Put(x, Head(p), Mutate(Get(x, Head(p)), Tail(p), y))

---------------------------------------------------------------------------
(* Texts.  A text either is the serialization of a JSON value or is not    *)
(* JSON at all; json.dumps and json.loads move between the two.            *)

JsonText(x) == [kind |-> "json", v |-> x]
EmptyText   == [kind |-> "bad", v |-> JStr("")]          \* the empty buffer
BadText     == [kind |-> "bad", v |-> JStr("{")]         \* malformed JSON
TruncText   == [kind |-> "bad", v |-> JStr("trunc")]     \* a partial write

JsonDumps(x)   == JsonText(x)
ParsesOk(txt)  == txt.kind = "json"
JsonLoads(txt) == txt.v

---------------------------------------------------------------------------
(* The editor's state as one record, so that a handler is a function from  *)
(* state to state and calls compose as they do in the source.  `exc` is ""  *)
(* or the exception a handler is raising.                                  *)

Cur == [heap |-> heap, json_data |-> json_data, current_file |-> current_file,
        modified |-> modified, raw |-> raw, tab |-> tab, sel |-> sel,
        editors |-> editors, canvas |-> canvas, tree |-> tree,
        wlist |-> wlist, disk |-> disk, closed |-> closed, exc |-> ""]

DocIds == 1..4

\* self.json_data as a value (None before the first load).
DocVal(s) == IF s.json_data = 0 THEN PyNone ELSE s.heap[s.json_data]

\* PropertyEditor.current_data: nothing, an alias into a document, the dict
\* of tree node n, or a tree-leaf dict that outlived its tree.
NoSel        == [k |-> "none", root |-> 0, path |-> <<>>, n |-> 0, w |-> PyNone]
RefSel(r, p) == [k |-> "ref",  root |-> r, path |-> p,    n |-> 0, w |-> PyNone]
NodeSel(n)   == [k |-> "node", root |-> 0, path |-> <<>>, n |-> n, w |-> PyNone]
OwnSel(w)    == [k |-> "own",  root |-> 0, path |-> <<>>, n |-> 0, w |-> w]

SelVal(s) ==
    CASE s.sel.k = "ref"  -> At(s.heap[s.sel.root], s.sel.path)
      [] s.sel.k = "node" -> s.tree[s.sel.n].w
      [] s.sel.k = "own"  -> s.sel.w
      [] OTHER            -> PyNone

\* The data a tree node carries under Qt.UserRole: nothing, an alias into
\* the document, or a fresh single-key dict.
NoneNode       == [k |-> "none", root |-> 0, path |-> <<>>, w |-> PyNone]
RefNode(r, p)  == [k |-> "ref",  root |-> r, path |-> p,    w |-> PyNone]
WrapNode(k, x) == [k |-> "wrap", root |-> 0, path |-> <<>>, w |-> JObj(<<Pair(k, x)>>)]

\* Reference counting: a root nobody holds is gone.
Held(s) == {s.json_data, s.sel.root}
             \cup {s.canvas[i].root : i \in DOMAIN s.canvas}
             \cup {s.tree[i].root : i \in DOMAIN s.tree}
Collect(s) ==
    [s EXCEPT !.heap = [i \in DocIds |-> IF i \in Held(s) THEN s.heap[i] ELSE Free]]

\* The id of the root object a parse creates for json_data: the least one
\* that no view and no selection holds.
HeldByViews(s) == {s.sel.root}
             \cup {s.canvas[i].root : i \in DOMAIN s.canvas}
             \cup {s.tree[i].root : i \in DOMAIN s.tree}
NewId(s) == CHOOSE i \in DocIds :
               /\ i \notin HeldByViews(s)
               /\ \A j \in DocIds : j < i => j \in HeldByViews(s)

---------------------------------------------------------------------------
(* DraggableWidget and CanvasView                                          *)

\* DraggableWidget.itemChange for ItemPositionChange to (x, y): store the
\* position in widget_data, creating props and props.position when absent.
\* QPointF.x() and .y() are floats.
itemChange(s, r, p, x, y) ==
    LET wd  == At(s.heap[r], p)
        wd1 == IF ~Has(GetD(wd, "props", JObj(<<>>)), "position")
               THEN LET wd0 == IF ~Has(wd, "props")
                               THEN Put(wd, "props", JObj(<<>>)) ELSE wd
                    IN  Put(wd0, "props", Put(Get(wd0, "props"), "position", JObj(<<>>)))
               ELSE wd
        pos == Get(Get(wd1, "props"), "position")
        pxy == Put(Put(pos, "x", JFlt(x)), "y", JFlt(y))
        wd2 == Put(wd1, "props", Put(Get(wd1, "props"), "position", pxy))
    IN  [s EXCEPT !.heap[r] = Mutate(@, p, wd2)]

\* QGraphicsItem.setPos(x, y) on a shape now at (ox, oy), with
\* ItemSendsGeometryChanges set: Qt returns at once when the position is
\* the one the item has, and otherwise notifies itemChange.
setPos(s, r, p, ox, oy, x, y) ==
    IF <<x, y>> = <<ox, oy>> THEN s ELSE itemChange(s, r, p, x, y)

\* DraggableWidget.__init__: the shape is created at (0, 0) with its flags
\* set and is then moved with setPos(x, y).
DraggableWidget(s, r, p, x, y, width, height) ==
    LET s1 == setPos(s, r, p, 0, 0, x, y)
    IN  [s1 EXCEPT !.canvas = Append(@,
            [root |-> r, path |-> p, x |-> x, y |-> y, w |-> width, h |-> height])]

DefaultOrigin == 50
DefaultStep   == 20
DefaultWidth  == 150
DefaultHeight == 100

\* A faulty add_widget: every shape without a position is put at the
\* origin of the defaults, none is stacked.
add_widget_unstacked(s, r, p) ==
    LET wd       == At(s.heap[r], p)
        props    == GetD(wd, "props", JObj(<<>>))
        position == GetD(props, "position", JObj(<<>>))
        x        == GetD(position, "x", JInt(DefaultOrigin))
        y        == GetD(position, "y", JInt(DefaultOrigin))
        width    == GetD(position, "width", JInt(DefaultWidth))
        height   == GetD(position, "height", JInt(DefaultHeight))
    IN  DraggableWidget(s, r, p, x.n, y.n, width.n, height.n)

\* CanvasView.add_widget(widget_data), widget_data being the object at
\* (r, p).  Qt takes numbers only: QGraphicsRectItem(0, 0, width, height)
\* and setPos(x, y) raise TypeError on anything else.
add_widget(s, r, p) ==
    LET wd       == At(s.heap[r], p)
        props    == GetD(wd, "props", JObj(<<>>))
        position == GetD(props, "position", JObj(<<>>))
        n        == Len(s.canvas)
        x        == GetD(position, "x", JInt(DefaultOrigin + n * DefaultStep))
        y        == GetD(position, "y", JInt(DefaultOrigin + n * DefaultStep))
        width    == GetD(position, "width", JInt(DefaultWidth))
        height   == GetD(position, "height", JInt(DefaultHeight))
    IN  IF \E q \in {x, y, width, height} : q.t \notin {"int", "flt", "bool"}
        THEN [s EXCEPT !.exc = "TypeError"]
        ELSE DraggableWidget(s, r, p, x.n, y.n, width.n, height.n)

\* CanvasView.clear_widgets
clear_widgets(s) == [s EXCEPT !.canvas = <<>>]

---------------------------------------------------------------------------
(* PropertyEditor                                                          *)

\* str.split('.') of a key, for the keys of the model's documents: a field
\* path is held as the list of its '.'-free segments, which is what
\* f"{prefix}.{key}" followed by split('.') yields.
Split(key) == IF key = "a.b" THEN <<"a", "b">> ELSE <<key>>

SpinMax == 999999
SpinMin == -999999
\* QSpinBox.setValue(int(value)) bounds the value to the spin box's range.
SpinValue(n) == IF n > SpinMax THEN SpinMax ELSE IF n < SpinMin THEN SpinMin ELSE n

MaxDepth == 3

\* PropertyEditor.add_editors(data, prefix, depth), from the i-th item of
\* data on: the form's fields, each with the path its handler is bound to,
\* the kind of widget and what the widget shows (for a list the text of
\* the QTextEdit, for the others the widget's value, held as a text too).
RECURSIVE add_editors(_, _, _, _)
add_editors(data, prefix, depth, i) ==
    IF depth > MaxDepth \/ i > Len(data.c) THEN <<>>
    ELSE LET key        == data.c[i].k
             value      == data.c[i].x
             field_path == prefix \o Split(key)
             here ==
                CASE IsDict(value)     -> add_editors(value, field_path, depth + 1, 1)
                  [] IsList(value)     ->
                        <<[p |-> field_path, kind |-> "list", val |-> JsonDumps(value)]>>
                  [] value.t = "bool"  ->
                        <<[p |-> field_path, kind |-> "bool", val |-> JsonText(value)]>>
                  [] IsNum(value)      ->
                        <<[p |-> field_path, kind |-> "int",
                           val |-> JsonText(JInt(SpinValue(value.n)))]>>
                  [] OTHER             ->
                        <<[p |-> field_path, kind |-> "str",
                           val |-> JsonText(IF value.t = "str" THEN value ELSE JStr("None"))]>>
         IN  here \o add_editors(data, prefix, depth, i + 1)

\* PropertyEditor.load_data(data): data is given as the selection record
\* that stands for the object.
load_data(s, data) ==
    LET s1 == [s EXCEPT !.sel = data, !.editors = <<>>]
    IN  IF ~Truthy(SelVal(s1)) THEN s1
        ELSE [s1 EXCEPT !.editors = add_editors(SelVal(s1), <<>>, 0, 1)]

\* A faulty walk: the value is assigned under the final key of the selected
\* object itself, the intermediate keys being skipped.
SetPathTop(x, keys, value) ==
    IF IsDict(x) THEN [exc |-> "", v |-> Put(x, keys[Len(keys)], value)]
    ELSE [exc |-> "TypeError", v |-> x]

\* A faulty walk: a missing intermediate key is created as an empty dict
\* (data = data.setdefault(key, {})) instead of raising.
RECURSIVE SetPathCreating(_, _, _)
SetPathCreating(x, keys, value) ==
    IF ~IsDict(x) THEN [exc |-> "TypeError", v |-> x]
    ELSE IF Len(keys) = 1 THEN [exc |-> "", v |-> Put(x, keys[1], value)]
    ELSE LET r == SetPathCreating(GetD(x, Head(keys), JObj(<<>>)), Tail(keys), value)
         IN  [exc |-> r.exc,
              v   |-> IF r.exc = "" THEN Put(x, Head(keys), r.v) ELSE x]

\* The walk and the assignment of update_field on the object x:
\* `for key in keys[:-1]: data = data[key]` and `data[keys[-1]] = value`.
\* The result is the exception raised, or "" and x after the assignment.
RECURSIVE SetPath(_, _, _)
SetPath(x, keys, value) ==
    IF Len(keys) = 1
    THEN IF IsDict(x) THEN [exc |-> "", v |-> Put(x, keys[1], value)]
         ELSE [exc |-> "TypeError", v |-> x]
    ELSE IF ~IsDict(x) THEN [exc |-> "TypeError", v |-> x]
    ELSE IF ~Has(x, Head(keys)) THEN [exc |-> "KeyError", v |-> x]
    ELSE LET r == SetPath(Get(x, Head(keys)), Tail(keys), value)
         IN  [exc |-> r.exc,
              v   |-> IF r.exc = "" THEN Put(x, Head(keys), r.v) ELSE x]

\* The selected object after an in-place mutation to x: the change is seen
\* by whoever else holds the object.
StoreSel(s, x) ==
    CASE s.sel.k = "ref"  -> [s EXCEPT !.heap[s.sel.root] = Mutate(@, s.sel.path, x)]
      [] s.sel.k = "node" -> [s EXCEPT !.tree[s.sel.n].w = x]
      [] s.sel.k = "own"  -> [s EXCEPT !.sel.w = x]
      [] OTHER            -> s

\* MobileUIEditor.mark_modified
mark_modified(s) == [s EXCEPT !.modified = TRUE]

\* PropertyEditor.update_field(field_path, value); property_changed is
\* connected to mark_modified.
update_field(s, field_path, value) ==
    IF ~Truthy(SelVal(s)) THEN s
    ELSE LET r == SetPath(SelVal(s), field_path, value)
         IN  IF r.exc # "" THEN [s EXCEPT !.exc = r.exc]
             ELSE mark_modified(StoreSel(s, r.v))

\* A faulty update_list: the JSONDecodeError is not caught.
update_list_raising(s, field_path, txt) ==
    IF ~ParsesOk(txt) THEN [s EXCEPT !.exc = "JSONDecodeError"]
    ELSE update_field(s, field_path, JsonLoads(txt))

\* PropertyEditor.update_list(field_path, widget), the widget holding txt.
update_list(s, field_path, txt) ==
    IF ~ParsesOk(txt) THEN s
    ELSE update_field(s, field_path, JsonLoads(txt))

---------------------------------------------------------------------------
(* MobileUIEditor: the views                                               *)

\* MobileUIEditor.add_tree_items(parent, data), from the i-th item of data
\* on; data is the object at path p of root r.
RECURSIVE add_tree_items(_, _, _, _)
add_tree_items(data, r, p, i) ==
    IF i > Len(data.c) THEN <<>>
    ELSE LET key   == data.c[i].k
             value == data.c[i].x
             here  ==
                IF IsDict(value)
                THEN <<RefNode(r, Append(p, key))>>
                        \o add_tree_items(value, r, Append(p, key), 1)
                ELSE IF IsList(value) /\ Truthy(value) /\ IsDict(value.c[1].x)
                THEN <<NoneNode>>
                        \o [j \in 1..Len(value.c) |-> RefNode(r, p \o <<key, IdxNames[j]>>)]
                ELSE <<WrapNode(key, value)>>
         IN  here \o add_tree_items(data, r, p, i + 1)

\* MobileUIEditor.populate_tree.  Clearing the tree destroys its nodes; a
\* leaf's dict survives only in the property form that holds it.  On a
\* document that is no dict, json_data.get raises.
populate_tree(s) ==
    LET kept == IF s.sel.k = "node" THEN OwnSel(s.tree[s.sel.n].w) ELSE s.sel
        s1   == [s EXCEPT !.sel = kept, !.tree = <<>>]
    IN  IF ~Truthy(DocVal(s1)) THEN s1
        ELSE IF ~IsDict(DocVal(s1)) THEN [s1 EXCEPT !.exc = "AttributeError"]
        ELSE [s1 EXCEPT !.tree =
                 <<NoneNode>> \o add_tree_items(DocVal(s1), s1.json_data, <<>>, 1)]

\* json_data.get(key, []) as the list of its items.
ItemsOf(doc, key) == Elems(GetD(doc, key, JArr(<<>>)))

\* MobileUIEditor.populate_widgets_list
populate_widgets_list(s) ==
    LET s1 == [s EXCEPT !.wlist = <<>>]
    IN  IF ~Truthy(DocVal(s1)) THEN s1
        ELSE IF ~IsDict(DocVal(s1)) THEN [s1 EXCEPT !.exc = "AttributeError"]
        ELSE LET me == ItemsOf(DocVal(s1), "moduleElements")
             IN  [s1 EXCEPT !.wlist =
                     [i \in 1..Len(me) |-> GetD(me[i], "id", JStr("Unknown")).s]]

\* The elements load_canvas walks: moduleElements, then enhancedData.
ElementPaths(doc) ==
    [i \in 1..Len(ItemsOf(doc, "moduleElements")) |-> <<"moduleElements", IdxNames[i]>>]
    \o [i \in 1..Len(ItemsOf(doc, "enhancedData")) |-> <<"enhancedData", IdxNames[i]>>]

RECURSIVE AddWidgets(_, _, _)
AddWidgets(s, r, paths) ==
    IF paths = <<>> \/ s.exc # "" THEN s
    ELSE AddWidgets(add_widget(s, r, Head(paths)), r, Tail(paths))

\* MobileUIEditor.load_canvas
load_canvas(s) ==
    LET s1 == clear_widgets(s)
    IN  IF ~Truthy(DocVal(s1)) THEN s1
        ELSE IF ~IsDict(DocVal(s1)) THEN [s1 EXCEPT !.exc = "AttributeError"]
        ELSE AddWidgets(s1, s1.json_data, ElementPaths(DocVal(s1)))

\* MobileUIEditor.update_raw_editor: signals are blocked, so textChanged
\* (and with it mark_modified) does not fire.
update_raw_editor(s) ==
    IF Truthy(DocVal(s)) THEN [s EXCEPT !.raw = JsonDumps(DocVal(s))] ELSE s

\* f(s), unless s is already raising.
Ok(s) == s.exc = ""

---------------------------------------------------------------------------
(* MobileUIEditor: files                                                   *)

\* self.json_data = <a freshly parsed value>
AssignDoc(s, x) ==
    LET id == NewId(s) IN [s EXCEPT !.heap[id] = x, !.json_data = id]

\* A faulty load: the path and the flag are set before the file is read.
load_file_eager(s, file_path, io) ==
    LET s0 == [s EXCEPT !.current_file = file_path, !.modified = FALSE]
    IN  IF io = "read_fails" THEN [s0 EXCEPT !.exc = "OSError"]
        ELSE IF ~ParsesOk(s0.disk[file_path])
        THEN [s0 EXCEPT !.exc = "JSONDecodeError"]
        ELSE LET s3 == populate_tree(AssignDoc(s0, JsonLoads(s0.disk[file_path])))
                 s4 == IF Ok(s3) THEN populate_widgets_list(s3) ELSE s3
                 s5 == IF Ok(s4) THEN load_canvas(s4) ELSE s4
             IN  IF Ok(s5) THEN update_raw_editor(s5) ELSE s5

\* MobileUIEditor.load_file(file_path); io tells whether reading fails.
load_file(s, file_path, io) ==
    IF io = "read_fails"
    THEN [s EXCEPT !.exc = "OSError"]
    ELSE IF ~ParsesOk(s.disk[file_path])
    THEN [s EXCEPT !.exc = "JSONDecodeError"]
    ELSE LET s1 == AssignDoc(s, JsonLoads(s.disk[file_path]))
             s2 == [s1 EXCEPT !.current_file = file_path, !.modified = FALSE]
             s3 == populate_tree(s2)
             s4 == IF Ok(s3) THEN populate_widgets_list(s3) ELSE s3
             s5 == IF Ok(s4) THEN load_canvas(s4) ELSE s4
         IN  IF Ok(s5) THEN update_raw_editor(s5) ELSE s5

\* A faulty save: the file is opened for writing before the raw text is
\* parsed, so a text that does not parse leaves a truncated file.
save_body_open_first(s, io) ==
    IF io = "open_fails" THEN [s EXCEPT !.exc = "OSError"]
    ELSE IF s.tab = "raw" /\ ~ParsesOk(s.raw)
    THEN [s EXCEPT !.disk[s.current_file] = TruncText, !.exc = "JSONDecodeError"]
    ELSE LET s1 == IF s.tab = "raw" THEN AssignDoc(s, JsonLoads(s.raw)) ELSE s
         IN  IF io = "write_fails"
             THEN [s1 EXCEPT !.disk[s1.current_file] = TruncText, !.exc = "OSError"]
             ELSE LET s2 == [s1 EXCEPT !.disk[s1.current_file] = JsonDumps(DocVal(s1)),
                                       !.modified = FALSE]
                      s3 == populate_tree(s2)
                  IN  IF Ok(s3) THEN load_canvas(s3) ELSE s3

\* The body of save_file once current_file is set (lines 540-557); io tells
\* how the write goes.
save_body(s, io) ==
    IF s.tab = "raw" /\ ~ParsesOk(s.raw)
    THEN [s EXCEPT !.exc = "JSONDecodeError"]
    ELSE LET s1 == IF s.tab = "raw" THEN AssignDoc(s, JsonLoads(s.raw)) ELSE s
         IN  IF io = "open_fails" THEN [s1 EXCEPT !.exc = "OSError"]
             ELSE IF io = "write_fails"
             THEN [s1 EXCEPT !.disk[s1.current_file] = TruncText, !.exc = "OSError"]
             ELSE LET s2 == [s1 EXCEPT !.disk[s1.current_file] = JsonDumps(DocVal(s1)),
                                       !.modified = FALSE]
                      s3 == populate_tree(s2)
                  IN  IF Ok(s3) THEN load_canvas(s3) ELSE s3

\* MobileUIEditor.save_file_as; chosen is the path picked in the dialog, ""
\* when the dialog is cancelled.
save_file_as(s, chosen, io) ==
    IF chosen = "" THEN s
    ELSE save_body([s EXCEPT !.current_file = chosen], io)

\* MobileUIEditor.save_file
save_file(s, chosen, io) ==
    IF s.current_file = "" THEN save_file_as(s, chosen, io)
    ELSE save_body(s, io)

\* closeEvent shows its prompt: `if self.modified`.
Prompts(s) == s.modified

\* A faulty closeEvent: the event is accepted whatever the answer.
closeEvent_accepting(s, reply, chosen, io) ==
    IF Prompts(s) /\ reply = "save"
    THEN [save_file(s, chosen, io) EXCEPT !.closed = TRUE]
    ELSE [s EXCEPT !.closed = TRUE]

\* MobileUIEditor.closeEvent; reply is the button the user presses in the
\* prompt, chosen and io are what a save started from the prompt meets.  A
\* QCloseEvent is accepted unless the handler ignores it.
closeEvent(s, reply, chosen, io) ==
    IF ~Prompts(s) THEN [s EXCEPT !.closed = TRUE]
    ELSE IF reply = "save"
    THEN [save_file(s, chosen, io) EXCEPT !.closed = TRUE]
    ELSE IF reply = "discard" THEN [s EXCEPT !.closed = TRUE]
    ELSE s

---------------------------------------------------------------------------
(* MobileUIEditor: selection                                               *)

\* MobileUIEditor.tree_item_clicked on node n
tree_item_clicked(s, n) ==
    LET node == s.tree[n]
        data == CASE node.k = "ref"  -> RefSel(node.root, node.path)
                  [] node.k = "wrap" -> NodeSel(n)
                  [] OTHER           -> NoSel
    IN  IF node.k # "none" /\ Truthy(SelVal([s EXCEPT !.sel = data]))
        THEN load_data(s, data) ELSE s

\* The first index of module_elements whose id is widget_id, 0 if none.
FirstMatch(me, widget_id) ==
    LET hits == {i \in DOMAIN me : GetD(me[i], "id", PyNone) = JStr(widget_id)}
    IN  IF hits = {} THEN 0 ELSE CHOOSE i \in hits : \A j \in hits : i <= j

\* MobileUIEditor.widget_list_item_clicked on entry i
widget_list_item_clicked(s, i) ==
    IF ~Truthy(DocVal(s)) THEN s
    ELSE IF ~IsDict(DocVal(s)) THEN [s EXCEPT !.exc = "AttributeError"]
    ELSE LET m == FirstMatch(ItemsOf(DocVal(s), "moduleElements"), s.wlist[i])
         IN  IF m = 0 THEN s
             ELSE load_data(s, RefSel(s.json_data, <<"moduleElements", IdxNames[m]>>))

\* MobileUIEditor.widget_selected, emitted by CanvasView.mousePressEvent on
\* shape i
widget_selected(s, i) == load_data(s, RefSel(s.canvas[i].root, s.canvas[i].path))

\* The user moves shape i to (x, y): Qt calls setPos, which notifies
\* itemChange.
MoveShape(s, i, x, y) ==
    LET it == s.canvas[i]
        s1 == setPos(s, it.root, it.path, it.x, it.y, x, y)
    IN  [s1 EXCEPT !.canvas[i].x = x, !.canvas[i].y = y]

---------------------------------------------------------------------------
(* The documents, files and inputs of the model                            *)

MaxOps == 3

ElemBare  == JObj(<<Pair("id", JStr("a")), Pair("tags", JArr(<<JStr("t")>>))>>)
ElemFull  == JObj(<<Pair("id", JStr("a")),
                    Pair("props", JObj(<<Pair("position",
                        JObj(<<Pair("x", JInt(10)), Pair("y", JInt(20)),
                               Pair("width", JInt(80)), Pair("height", JInt(30))>>))>>))>>)
ElemProps == JObj(<<Pair("id", JStr("c")),
                    Pair("props", JObj(<<Pair("visible", JBool(TRUE))>>))>>)

DocA == JObj(<<Pair("id", JStr("m")),
               Pair("moduleElements", JArr(<<ElemBare, ElemFull>>)),
               Pair("enhancedData", JArr(<<ElemProps>>))>>)
DocB == JObj(<<Pair("meta", JObj(<<>>)),
               Pair("moduleElements", JArr(<<JObj(<<Pair("id", JStr("r"))>>),
                                             JObj(<<Pair("id", JStr("r"))>>)>>))>>)
DocEmpty == JObj(<<>>)

DocList == JArr(<<JInt(1)>>)

Paths == {"a.json", "b.json", "c.json", "d.json"}
InitDisk == [p \in Paths |->
                CASE p = "a.json" -> JsonText(DocA)
                  [] p = "b.json" -> JsonText(DocEmpty)
                  [] p = "d.json" -> JsonText(DocList)
                  [] OTHER        -> BadText]

\* Where the user may save to in the Save As dialog ("" cancels it).
SavePaths == {"a.json", "b.json"}
\* What the user may type into the raw view.
RawTexts == {BadText, JsonText(DocB)}
\* Where the user may drop a shape.
DropPoints == {<<0, 0>>, <<5, 5>>}
\* What the user may enter into a field of the property form.
FieldInputs(kind) ==
    CASE kind = "str"  -> {JsonText(JStr("z"))}
      [] kind = "int"  -> {JsonText(JInt(7))}
      [] kind = "bool" -> {JsonText(JBool(TRUE)), JsonText(JBool(FALSE))}
      [] OTHER         -> {BadText, JsonText(JArr(<<>>))}

---------------------------------------------------------------------------
(* The state machine                                                       *)

\* The history record: handler op ended with res (an exception's name, or
\* how it returned); path and arg are its inputs, dirty the modified flag it
\* found.  Selections and tab switches that raise nothing leave it alone.
Event(op, res, path, arg, dirty) ==
    [op |-> op, res |-> res, path |-> path, arg |-> arg, dirty |-> dirty]

Init ==
    /\ heap = [i \in DocIds |-> Free]
    /\ json_data = 0
    /\ current_file = ""
    /\ modified = FALSE
    /\ raw = EmptyText
    /\ tab = "props"
    /\ sel = NoSel
    /\ editors = <<>>
    /\ canvas = <<>>
    /\ tree = <<>>
    /\ wlist = <<>>
    /\ disk = InitDisk
    /\ closed = FALSE
    /\ lastEdited = "none"
    /\ last = Event("init", "ok", <<>>, PyNone, FALSE)
    /\ ops = 0

\* The state s becomes the next state, after the handler described by ev;
\* edited is the surface edited last, cost what the handler adds to ops.
\* A closed window handles nothing.
Commit(s, ev, edited, cost) ==
    \E c \in {Collect(s)} :
        /\ ~closed
        /\ closed' = c.closed
        /\ heap' = c.heap
        /\ json_data' = c.json_data
        /\ current_file' = c.current_file
        /\ modified' = c.modified
        /\ raw' = c.raw
        /\ tab' = c.tab
        /\ sel' = c.sel
        /\ editors' = c.editors
        /\ canvas' = c.canvas
        /\ tree' = c.tree
        /\ wlist' = c.wlist
        /\ disk' = c.disk
        /\ lastEdited' = IF c.exc = "" THEN edited ELSE lastEdited
        /\ last' = IF ev.op = "select" /\ c.exc = "" THEN last
                   ELSE IF c.exc # "" THEN [ev EXCEPT !.res = c.exc] ELSE ev
        /\ ops' = ops + cost

Select == Event("select", "ok", <<>>, PyNone, modified)

\* open_file: the user picks file_path in the dialog.
OpenFile ==
    /\ ops < MaxOps
    /\ \E file_path \in Paths, io \in {"ok", "read_fails"} :
          Commit(load_file(Cur, file_path, io),
                 Event("load", "ok", <<file_path>>, PyNone, modified), "none", 1)

\* The Save button.
SaveFile ==
    /\ ops < MaxOps
    /\ \E chosen \in (IF current_file = "" THEN SavePaths \cup {""} ELSE {""}),
          io \in {"ok", "open_fails", "write_fails"} :
          LET done == current_file # "" \/ chosen # ""
          IN  Commit(save_file(Cur, chosen, io),
                     Event("save", IF done THEN "ok" ELSE "cancelled",
                           <<>>, PyNone, modified),
                     IF done THEN "none" ELSE lastEdited, 1)

\* The Save As button.
SaveFileAs ==
    /\ ops < MaxOps
    /\ \E chosen \in SavePaths \cup {""}, io \in {"ok", "open_fails", "write_fails"} :
          Commit(save_file_as(Cur, chosen, io),
                 Event("save", IF chosen # "" THEN "ok" ELSE "cancelled",
                       <<>>, PyNone, modified),
                 IF chosen # "" THEN "none" ELSE lastEdited, 1)

\* A click on a node of the tree.
TreeClick ==
    \E n \in DOMAIN tree :
       Commit(tree_item_clicked(Cur, n), Select, lastEdited, 0)

\* A click on an entry of the element list.
ListClick ==
    \E i \in DOMAIN wlist :
       Commit(widget_list_item_clicked(Cur, i), Select, lastEdited, 0)

\* A click on a shape of the canvas.
CanvasClick ==
    \E i \in DOMAIN canvas :
       Commit(widget_selected(Cur, i), Select, lastEdited, 0)

\* A drag of a shape: the press selects it, the move repositions it.
CanvasDrag ==
    /\ ops < MaxOps
    /\ \E i \in DOMAIN canvas, pt \in DropPoints :
          /\ pt # <<canvas[i].x, canvas[i].y>>
          /\ Commit(MoveShape(widget_selected(Cur, i), i, pt[1], pt[2]),
                    Event("drag", "ok", canvas[i].path, JInt(i), modified), "form", 1)

\* The handler of field e of the form, the widget now showing v: the
\* lambdas of add_editors.
FieldChanged(s, e, v) ==
    IF e.kind = "list" THEN update_list(s, e.p, v) ELSE update_field(s, e.p, v.v)

\* The user changes field i of the property form to v; the form is on the
\* Properties tab.
EditField ==
    /\ ops < MaxOps
    /\ tab = "props"
    /\ \E i \in DOMAIN editors :
       \E v \in FieldInputs(editors[i].kind) :
          /\ v # editors[i].val
          /\ LET dropped == editors[i].kind = "list" /\ ~ParsesOk(v)
             IN  Commit(FieldChanged([Cur EXCEPT !.editors[i].val = v], editors[i], v),
                        Event("edit", IF dropped THEN "ignored" ELSE "ok", editors[i].p,
                              v.v, modified),
                        IF dropped THEN lastEdited ELSE "form", 1)

\* The user types in the raw view, which is on the Raw JSON tab:
\* textChanged is connected to mark_modified.
RawEdit ==
    /\ ops < MaxOps
    /\ tab = "raw"
    /\ \E txt \in RawTexts :
          /\ txt # raw
          /\ Commit(mark_modified([Cur EXCEPT !.raw = txt]),
                    Event("raw_edit", "ok", <<>>, PyNone, modified), "raw", 1)

\* The user closes the window and, if prompted, answers reply; a save
\* started from the prompt may open the Save As dialog and meets io.  The
\* event records whether the prompt was shown and the answer given to it.
CloseWindow ==
    /\ ops < MaxOps
    /\ \E reply \in {"save", "discard", "cancel"},
          chosen \in (IF current_file = "" THEN SavePaths \cup {""} ELSE {""}),
          io \in {"ok", "open_fails", "write_fails"} :
          /\ reply # "save" => chosen = "" /\ io = "ok"
          /\ Commit(closeEvent(Cur, reply, chosen, io),
                    Event("close", IF Prompts(Cur) THEN "prompt" ELSE "no_prompt", <<>>,
                          JStr(IF Prompts(Cur) THEN reply ELSE ""), modified),
                    lastEdited, 1)

\* The user switches between the Properties tab and the Raw JSON tab.
SwitchTab ==
    Commit([Cur EXCEPT !.tab = IF tab = "raw" THEN "props" ELSE "raw"],
           Select, lastEdited, 0)

Next ==
    \/ OpenFile
    \/ SaveFile
    \/ SaveFileAs
    \/ TreeClick
    \/ ListClick
    \/ CanvasClick
    \/ CanvasDrag
    \/ EditField
    \/ RawEdit
    \/ CloseWindow
    \/ SwitchTab

Spec == Init /\ [][Next]_vars

---------------------------------------------------------------------------
(* The field-path resolver on its own.  The editor has loaded a file whose *)
(* key "form" holds one of the subtrees below and the user has picked that *)
(* node in the tree; update_field is then called with every path and value *)
(* of a small set, whether or not the form shows a field for the path, and *)
(* a shape is placed on the selected object and dragged.                   *)

Holder(e) == JObj(<<Pair("form", e)>>)

Subtrees ==
    { JObj(<<Pair("a", JObj(<<Pair("b", JObj(<<Pair("c", JInt(1))>>))>>))>>),
      JObj(<<Pair("a", JObj(<<>>)), Pair("k", JInt(3))>>),
      JObj(<<Pair("a", JInt(5))>>),
      JObj(<<Pair("a", JArr(<<JStr("t")>>))>>),
      JObj(<<Pair("id", JStr("e"))>>),
      JObj(<<Pair("id", JStr("e")), Pair("props", JObj(<<Pair("visible", JBool(TRUE))>>))>>),
      JObj(<<Pair("props", JObj(<<Pair("position", JObj(<<Pair("x", JInt(1))>>))>>))>>),
      JObj(<<Pair("a.b", JStr("x")), Pair("a", JObj(<<Pair("b", JStr("y"))>>))>>) }

FieldPaths == { <<"a", "b", "c">>, <<"a", "missing", "c">>, <<"a", "b">>, <<"n">>,
                <<"props", "position", "x">>, <<"props", "position", "y">> }

FieldValues == {JInt(42), JStr("v")}

\* The editor as constructed, with file_text in a.json.
Blank(file_text) ==
    [heap |-> [i \in DocIds |-> Free], json_data |-> 0, current_file |-> "",
     modified |-> FALSE, raw |-> EmptyText, tab |-> "props", sel |-> NoSel,
     editors |-> <<>>, canvas |-> <<>>, tree |-> <<>>, wlist |-> <<>>,
     disk |-> [InitDisk EXCEPT !["a.json"] = file_text], closed |-> FALSE,
     exc |-> ""]

InitResolver ==
    \E e \in Subtrees :
       LET s == tree_item_clicked(
                    load_file(Blank(JsonDumps(Holder(e))), "a.json", "ok"), 2)
       IN  /\ heap = s.heap
           /\ json_data = s.json_data
           /\ current_file = s.current_file
           /\ modified = s.modified
           /\ raw = s.raw
           /\ tab = s.tab
           /\ sel = s.sel
           /\ editors = s.editors
           /\ canvas = s.canvas
           /\ tree = s.tree
           /\ wlist = s.wlist
           /\ disk = s.disk
           /\ closed = FALSE
           /\ lastEdited = "none"
           /\ last = Event("load", "ok", <<"a.json">>, PyNone, FALSE)
           /\ ops = 0

\* update_field(field_path, value) on the selected object.
ResolverSet ==
    /\ ops < MaxOps
    /\ \E field_path \in FieldPaths, value \in FieldValues :
          Commit(update_field(Cur, field_path, value),
                 Event("set", "ok", field_path, value, modified), "form", 1)

\* CanvasView.add_widget on the selected object: its shape is constructed
\* and moved to its first position.
ResolverPlace ==
    /\ ops < MaxOps
    /\ canvas = <<>>
    /\ sel.k = "ref"
    /\ Commit(add_widget(Cur, sel.root, sel.path),
              Event("place", "ok", sel.path, JInt(1), modified), lastEdited, 1)

NextResolver ==
    \/ ResolverSet
    \/ ResolverPlace
    \/ CanvasDrag
    \/ EditField

SpecResolver == InitResolver /\ [][NextResolver]_vars

---------------------------------------------------------------------------
(* Properties                                                              *)

\* The object reached from x along path p, a step being a key of a dict or
\* the index of a list item; Free if there is none.
RECURSIVE Read(_, _)
Read(x, p) ==
    IF p = <<>> THEN x
    ELSE IF IsDict(x) /\ Has(x, Head(p)) THEN Read(Get(x, Head(p)), Tail(p))
    ELSE IF IsList(x) /\ \E i \in DOMAIN x.c : IdxNames[i] = Head(p)
    THEN Read(x.c[IdxOf(Head(p))].x, Tail(p))
    ELSE Free

\* Every segment of keys but the last exists under x as a dict.
RECURSIVE Resolvable(_, _)
Resolvable(x, keys) ==
    /\ IsDict(x)
    /\ Len(keys) > 1 => /\ Has(x, Head(keys))
                        /\ Resolvable(Get(x, Head(keys)), Tail(keys))

\* b is a but for what the path keys leads to: along the path every other
\* key is there in both, with the same value.
RECURSIVE SameBut(_, _, _)
SameBut(a, b, keys) ==
    /\ IsDict(a) /\ IsDict(b)
    /\ \A i \in DOMAIN a.c :
          a.c[i].k # Head(keys) => Has(b, a.c[i].k) /\ Get(b, a.c[i].k) = a.c[i].x
    /\ \A i \in DOMAIN b.c : b.c[i].k # Head(keys) => Has(a, b.c[i].k)
    /\ Has(b, Head(keys))
    /\ Len(keys) > 1 => /\ Has(a, Head(keys))
                        /\ SameBut(Get(a, Head(keys)), Get(b, Head(keys)), Tail(keys))

\* This step is a run of handler op (a load, a save, an edit, ...).
Ran(op) == ops' = ops + 1 /\ last'.op = op

\* C1: a successful save writes the Document as the property form and the
\* canvas left it when one of them was edited last, and the parse of the
\* raw text when the raw view was edited last, whichever tab is active.
C1_SaveSyncsLastEdited ==
    [][(Ran("save") /\ last'.res = "ok")
          => /\ lastEdited = "form" /\ json_data # 0
                   => disk'[current_file'] = JsonDumps(heap[json_data])
             /\ lastEdited = "raw" /\ ParsesOk(raw)
                   => disk'[current_file'] = JsonDumps(JsonLoads(raw))]_vars

\* C2: a save that finds the Raw JSON tab active and its text malformed
\* ends with a parse error and changes neither a file nor json_data nor the
\* Document's value nor the modified flag.
C2_BadRawSaveAborts ==
    [][(Ran("save") /\ last'.res # "cancelled" /\ tab = "raw" /\ ~ParsesOk(raw))
          => /\ last'.res = "JSONDecodeError"
             /\ disk' = disk
             /\ json_data' = json_data
             /\ heap' = heap
             /\ modified' = modified]_vars

\* A save has just ended with a parse error, on a loaded and modified
\* document, which is still loaded and modified.
C2_Witness ==
    /\ last.op = "save" /\ last.res = "JSONDecodeError" /\ last.dirty
    /\ tab = "raw" /\ ~ParsesOk(raw)
    /\ json_data # 0 /\ modified

\* C3: a load that ends with an I/O error or a parse error leaves
\* json_data, the Document, current_file, the modified flag, the tree, the
\* list, the canvas, the raw text and the property form as they were.
C3_FailedLoadKeepsState ==
    [][(Ran("load") /\ last'.res \in {"OSError", "JSONDecodeError"})
          => UNCHANGED <<heap, json_data, current_file, modified, raw, sel,
                         editors, canvas, tree, wlist, disk>>]_vars

\* A load of a malformed file has just failed while another document was
\* loaded and modified.
C3_Witness ==
    /\ last.op = "load" /\ last.res = "JSONDecodeError" /\ last.dirty
    /\ json_data # 0 /\ current_file = "a.json" /\ last.path = <<"c.json">>
    /\ modified /\ Len(tree) > 0 /\ Len(canvas) > 0

\* C4: after a successful load the Document equals the parse of the file,
\* current_file is the loaded path and the modified flag is false.
C4_LoadReplacesDocument ==
    [][(Ran("load") /\ last'.res = "ok")
          => /\ current_file' = last'.path[1]
             /\ modified' = FALSE
             /\ PyEq(heap'[json_data'], JsonLoads(disk[last'.path[1]]))]_vars

\* C5: a successful save that follows a successful load with no edit in
\* between writes a document equal to the one the file held.
C5_LoadSaveIdempotent ==
    [][(last.op = "load" /\ last.res = "ok" /\ Ran("save") /\ last'.res = "ok")
          => PyEq(JsonLoads(disk'[current_file']), JsonLoads(disk[current_file]))]_vars

\* C6: refreshing the views leaves the Document as it was: after a load it
\* is the value parsed, after a save the value written, and a selection
\* (load_data) does not change it.
C6_ViewsLeaveDocument ==
    [][/\ (Ran("load") /\ last'.res = "ok")
            => heap'[json_data'] = JsonLoads(disk[last'.path[1]])
       /\ (Ran("save") /\ last'.res = "ok")
            => heap'[json_data'] = JsonLoads(disk'[current_file'])
       /\ (ops' = ops /\ json_data # 0)
            => json_data' = json_data /\ heap'[json_data] = heap[json_data]]_vars

\* C7: a field edit that the form accepts sets the value at the field's
\* path under the selected object, which is an object of the Document, and
\* sets the modified flag; a successful save from the Properties tab then
\* writes the Document.
C7_EditReachesDocument ==
    [][/\ (Ran("edit") /\ last'.res = "ok")
            => /\ modified'
               /\ sel'.k = "ref" /\ sel'.root = json_data'
               /\ Read(heap'[json_data'], sel'.path \o last'.path) = last'.arg
       /\ (Ran("save") /\ last'.res = "ok" /\ tab = "props" /\ json_data # 0)
            => disk'[current_file'] = JsonDumps(heap[json_data])]_vars

\* C8: update_field(path, v) on a selected subtree under which every
\* segment of the path but the last is a dict returns normally, after which
\* the path leads to v, the final key being there, and every other key of
\* the subtree has the value it had.
C8_SetThenGet ==
    [][(Ran("set") /\ Resolvable(SelVal(Cur), last'.path))
          => /\ last'.res = "ok"
             /\ Read(SelVal(Cur)', last'.path) = last'.arg
             /\ SameBut(SelVal(Cur), SelVal(Cur)', last'.path)
             /\ modified']_vars

\* update_field has just set a.b.c, which existed, to 42.
C8_Witness ==
    /\ last.op = "set" /\ last.res = "ok"
    /\ last.path = <<"a", "b", "c">> /\ last.arg = JInt(42)
    /\ Read(SelVal(Cur), <<"a", "b", "c">>) = JInt(42)
    /\ modified

\* update_field has just inserted the absent key b under a, which is an
\* empty dict.
C8_WitnessInsert ==
    /\ last.op = "set" /\ last.res = "ok" /\ last.path = <<"a", "b">>
    /\ Read(SelVal(Cur), <<"a">>) = JObj(<<Pair("b", last.arg)>>)
    /\ Read(SelVal(Cur), <<"k">>) = JInt(3)

\* C9: update_field with a path one of whose segments before the last is
\* missing or is no dict raises KeyError or TypeError and changes nothing:
\* no object of the heap, no selection, not the modified flag.
C9_FailedSetDropped ==
    [][(Ran("set") /\ ~Resolvable(SelVal(Cur), last'.path))
          => /\ last'.res \in {"KeyError", "TypeError"}
             /\ heap' = heap
             /\ json_data' = json_data
             /\ sel' = sel
             /\ modified' = modified]_vars

\* update_field has just raised KeyError on a.missing.c under a subtree
\* whose a is a dict without the key missing; the flag is still false.
C9_Witness ==
    /\ last.op = "set" /\ last.res = "KeyError"
    /\ last.path = <<"a", "missing", "c">>
    /\ IsDict(Read(SelVal(Cur), <<"a">>))
    /\ Read(SelVal(Cur), <<"a", "missing">>) = Free
    /\ ~modified

\* The object has no props, or props without position.
LacksPosition(x) == Read(x, <<"props", "position">>) = Free

\* C10: a position write on an object without props or without
\* props.position succeeds and leaves props.position holding the value
\* written, be it made by the canvas (a shape placed or dragged) or by
\* update_field("props.position.x" or ".y", v).
C10_PositionCreated ==
    [][/\ (Ran("place") \/ Ran("drag")) /\ LacksPosition(SelVal(Cur))
            => /\ last'.res = "ok"
               /\ PyEq(Read(SelVal(Cur)', <<"props", "position", "x">>),
                       JInt(canvas'[1].x))
       /\ (Ran("set") /\ LacksPosition(SelVal(Cur))
             /\ last'.path \in {<<"props", "position", "x">>,
                                <<"props", "position", "y">>})
            => /\ last'.res = "ok"
               /\ Read(SelVal(Cur)', last'.path) = last'.arg]_vars

\* C15: a close that finds the modified flag set shows the prompt, and the
\* answer Cancel keeps the window open with the Document, the files and the
\* flag as they were; a close that finds the flag clear shows no prompt and
\* closes the window.
C15_ClosePrompts ==
    [][Ran("close")
          => /\ modified <=> last'.res # "no_prompt"
             /\ (modified /\ last'.arg = JStr("cancel"))
                   => /\ ~closed'
                      /\ UNCHANGED <<heap, json_data, current_file, modified, disk>>
             /\ ~modified
                   => closed' /\ UNCHANGED <<heap, json_data, modified, disk>>]_vars

\* The user has just answered Cancel to the prompt of a close: the window
\* is open and the document still modified.
C15_Witness ==
    /\ last.op = "close" /\ last.res = "prompt" /\ last.arg = JStr("cancel")
    /\ ~closed /\ modified /\ json_data # 0

\* The window has closed without a prompt.
C15_WitnessClean ==
    last.op = "close" /\ last.res = "no_prompt" /\ closed /\ ~modified

\* The paths of the Elements of doc: those of moduleElements, then those
\* of enhancedData, a key that is absent counting as an empty list.
ElementsInOrder(doc) ==
    LET count(key) == IF IsDict(doc) /\ Has(doc, key) THEN Len(Get(doc, key).c) ELSE 0
    IN  [i \in 1..count("moduleElements") |-> <<"moduleElements", IdxNames[i]>>]
        \o [i \in 1..count("enhancedData") |-> <<"enhancedData", IdxNames[i]>>]

\* The shape of the i-th Element of doc (i counted from 1), doc being the
\* object with root id r.
ShapeOf(doc, r, i) ==
    LET path     == ElementsInOrder(doc)[i]
        position == Read(doc, path \o <<"props", "position">>)
        at(key, default) ==
            IF IsDict(position) /\ Has(position, key) THEN Get(position, key).n
            ELSE default
    IN  [root |-> r, path |-> path,
         x |-> at("x", 50 + 20 * (i - 1)), y |-> at("y", 50 + 20 * (i - 1)),
         w |-> at("width", 150), h |-> at("height", 100)]

ShapesOf(doc, r) == [i \in 1..Len(ElementsInOrder(doc)) |-> ShapeOf(doc, r, i)]

\* C11: the canvas that load_canvas leaves, at the end of a successful load
\* and of a successful save, holds the shapes of the Elements of the
\* Document it was given (the value parsed, the value written), one per
\* Element and in order, each bound to its Element, at props.position x/y
\* or else (50 + 20 i, 50 + 20 i), of size width/height or else 150 by 100.
C11_CanvasShapes ==
    [][/\ (Ran("load") /\ last'.res = "ok")
            => canvas' = ShapesOf(JsonLoads(disk[last'.path[1]]), json_data')
       /\ (Ran("save") /\ last'.res = "ok")
            => canvas' = ShapesOf(JsonLoads(disk'[current_file']), json_data')]_vars

\* a.json has just been loaded: its first Element, without position, is at
\* (50, 50) with the default size, its second where its position says, its
\* third, from enhancedData and without position, at (90, 90).
C11_Witness ==
    /\ last.op = "load" /\ last.res = "ok" /\ Len(canvas) = 3
    /\ <<canvas[1].x, canvas[1].y, canvas[1].w, canvas[1].h>> = <<50, 50, 150, 100>>
    /\ <<canvas[2].x, canvas[2].y, canvas[2].w, canvas[2].h>> = <<10, 20, 80, 30>>
    /\ canvas[3].path = <<"enhancedData", "0">> /\ canvas[3].x = 90 /\ canvas[3].y = 90

\* A document with two Elements without position has just been saved from
\* the raw view: its shapes are at (50, 50) and (70, 70).
C11_WitnessTwo ==
    /\ last.op = "save" /\ last.res = "ok" /\ Len(canvas) = 2
    /\ <<canvas[1].x, canvas[1].y>> = <<50, 50>>
    /\ <<canvas[2].x, canvas[2].y>> = <<70, 70>>
    /\ canvas[2].w = 150 /\ canvas[2].h = 100

\* The first item of moduleElements whose id is the string s, 0 if none.
FirstWithId(doc, s) ==
    LET items == IF IsDict(doc) /\ Has(doc, "moduleElements")
                 THEN Get(doc, "moduleElements").c ELSE <<>>
        hits  == {j \in DOMAIN items : Read(items[j].x, <<"id">>) = JStr(s)}
    IN  IF hits = {} THEN 0 ELSE CHOOSE j \in hits : \A h \in hits : j <= h

\* C12: whatever is selected, a pick makes the property form hold the
\* object picked, itself and no copy: a click on a shape its Element, a
\* click on a tree node the object attached to the node, be it empty, and
\* a click on a list entry the first item of moduleElements with that id.
C12_PickReplacesSelection ==
    ~closed =>
       /\ \A i \in DOMAIN canvas :
             widget_selected(Cur, i).sel = RefSel(canvas[i].root, canvas[i].path)
       /\ \A n \in DOMAIN tree :
             /\ tree[n].k = "ref"
                   => tree_item_clicked(Cur, n).sel = RefSel(tree[n].root, tree[n].path)
             /\ tree[n].k = "wrap" => tree_item_clicked(Cur, n).sel = NodeSel(n)
       /\ \A i \in DOMAIN wlist :
             FirstWithId(DocVal(Cur), wlist[i]) # 0
                => widget_list_item_clicked(Cur, i).sel
                      = RefSel(json_data,
                               <<"moduleElements", IdxNames[FirstWithId(DocVal(Cur), wlist[i])]>>)

\* This step changes the text of a list field of the form to one that is
\* not JSON.
BadListEdit ==
    /\ Ran("edit")
    /\ \E i \in DOMAIN editors :
          /\ editors[i].kind = "list"
          /\ editors'[i].val # editors[i].val
          /\ ~ParsesOk(editors'[i].val)

\* C13: a list-field edit whose text does not parse raises nothing and
\* changes neither the selected object nor the Document nor a file nor the
\* modified flag.
C13_BadListEditIgnored ==
    [][BadListEdit
          => /\ last'.res = "ignored"
             /\ UNCHANGED <<heap, json_data, sel, tree, canvas, raw, disk, modified>>]_vars

\* A list field holds a text that is not JSON, just entered, and the
\* document is still unmodified.
C13_Witness ==
    /\ last.op = "edit" /\ last.res = "ignored" /\ ~modified /\ json_data # 0
    /\ \E i \in DOMAIN editors : editors[i].kind = "list" /\ ~ParsesOk(editors[i].val)

\* C14: the Document is absent or a JSON object.
C14_DocumentIsObject ==
    json_data # 0 => IsDict(heap[json_data])

\* C16: a field edit that the form accepts, or a drag, that finds the raw
\* text equal to the serialization of the Document (so nothing typed in the
\* raw view is pending) leaves it equal to the serialization of the
\* Document.
C16_RawViewLive ==
    [][(/\ (Ran("edit") /\ last'.res = "ok") \/ Ran("drag")
        /\ json_data # 0
        /\ raw = JsonDumps(heap[json_data]))
          => raw' = JsonDumps(heap'[json_data'])]_vars

\* C17: after a successful load the raw text is the serialization of the
\* Document, and the tree, the list and the canvas hold what the view
\* builders make of the Document and of nothing else.
C17_LoadRefreshesViews ==
    [][(Ran("load") /\ last'.res = "ok")
          => /\ raw' = JsonDumps(heap'[json_data'])
             /\ tree' = populate_tree([Cur EXCEPT !.sel = NoSel]').tree
             /\ wlist' = populate_widgets_list(Cur').wlist
             /\ \A i \in DOMAIN canvas' : canvas'[i].root = json_data'
             /\ Len(canvas') = Len(ElementsInOrder(heap'[json_data']))]_vars

\* The leaves of data that get a field, each by the keys that lead to it,
\* in the order of the fields: the items that are no dict, down to the
\* depth the form goes to, from the i-th item of data on.
RECURSIVE LeafPaths(_, _, _, _)
LeafPaths(data, keys, depth, i) ==
    IF depth > 3 \/ i > Len(data.c) THEN <<>>
    ELSE LET here == IF IsDict(data.c[i].x)
                     THEN LeafPaths(data.c[i].x, Append(keys, data.c[i].k), depth + 1, 1)
                     ELSE <<Append(keys, data.c[i].k)>>
         IN  here \o LeafPaths(data, keys, depth, i + 1)

\* The form shows the fields of the selected object as it is now.
FormCurrent ==
    LET fresh == add_editors(SelVal(Cur), <<>>, 0, 1)
    IN  /\ Len(fresh) = Len(editors)
        /\ \A i \in DOMAIN editors :
              fresh[i].p = editors[i].p /\ fresh[i].kind = editors[i].kind

\* C18: when the form shows the fields of the selected object, the handler
\* of a field, given a value (for a list field a text that parses), sets
\* the leaf the field was made from to that value and no other leaf, dots
\* in keys or not.
C18_FieldAddressesItsLeaf ==
    [][(Ran("edit") /\ ~BadListEdit /\ FormCurrent)
          => \E i \in DOMAIN editors :
                /\ editors'[i].val # editors[i].val
                /\ last'.res = "ok"
                /\ Read(SelVal(Cur)', LeafPaths(SelVal(Cur), <<>>, 0, 1)[i]) = last'.arg
                /\ SameBut(SelVal(Cur), SelVal(Cur)',
                           LeafPaths(SelVal(Cur), <<>>, 0, 1)[i])]_vars

\* C19: a field edit or a drag that changes the Document leaves the
\* modified flag set, and the flag, once set, stays set until a load or a
\* save (from the button or from the close prompt) runs; so a close that
\* follows the change prompts.
C19_ModifiedTracksChanges ==
    [][/\ ((Ran("edit") \/ Ran("drag")) /\ json_data # 0
              /\ heap'[json_data'] # heap[json_data])
            => modified'
       /\ (modified /\ ~Ran("load") /\ ~Ran("save") /\ ~Ran("close"))
            => modified']_vars

\* C20: the object the property form holds, when it comes from a document,
\* and the Element of every shape are objects of the current Document.
C20_NoStaleAlias ==
    /\ sel.k = "ref" => sel.root = json_data
    /\ \A i \in DOMAIN canvas : canvas[i].root = json_data

\* C21: a close answered Save closes the window only if the save it ran
\* wrote the Document: after a failed save (raw text that does not parse, a
\* file that cannot be opened or written) or a cancelled Save As dialog the
\* window stays open; it never closes with the modified flag still set.
C21_SaveThenClose ==
    [][(Ran("close") /\ modified /\ last'.arg = JStr("save"))
          => (closed' => ~modified' /\ current_file' # "")]_vars

====
